---- MODULE Spec2Model ----
(***************************************************************************)
(* A model of bulk_mailer.py: main() resolves the credentials, loads the   *)
(* recipients from a CSV file, reads the body template and runs send_bulk, *)
(* which owns one SMTP session, builds and sends one message per recipient *)
(* and paces the loop with a delay.                                        *)
(*                                                                         *)
(* Text that the program inspects character by character (CSV cells, the   *)
(* recipient's fields, rendered text) is a sequence of one-character       *)
(* strings; text it only passes on (user names, paths) is a plain string.  *)
(* A format template is the sequence of the pieces str.format sees.        *)
(***************************************************************************)
EXTENDS Integers, Sequences, FiniteSets, TLC

VARIABLES
    args,        \* the parsed command line (argparse namespace)
    env,         \* the environment variables SMTP_USER / SMTP_PASS
    csvFile,     \* the --csv file: whether it can be read, and the rows csv.reader yields
    bodyFile,    \* the --body file: whether it can be read, and its text (a template)
    pc,          \* the position of the program
    row,         \* load_recipients: number of rows consumed so far
    recipients,  \* the list built by load_recipients / iterated by send_bulk
    session,     \* the smtplib.SMTP object: "none", "open" or "closed"
    i,           \* send_bulk: the 1-based index of the current recipient
    sent,        \* send_bulk: the counter of successful sends
    msg,         \* send_bulk: the message built for the current recipient, or None
    exc,         \* the exception propagating out of the program, or None
    log          \* everything observable so far, in order: calls and printed lines

vars == <<args, env, csvFile, bodyFile, pc, row, recipients, session, i, sent, msg, exc, log>>

inputs == <<args, env, csvFile, bodyFile>>

----------------------------------------------------------------------------
(* Bounds of the model *)

\* longest CSV file (in rows) the loader is run on alone
MaxRows == 2

\* longest CSV file (in rows) the whole program is run on
MaxSendRows == 3

----------------------------------------------------------------------------
(* Values *)

None == "None"

\* a file of the given content, and a path that cannot be opened
File(content) == [readable |-> TRUE, content |-> content]

Unreadable == [readable |-> FALSE, content |-> <<>>]

\* Python truthiness of an optional string: None and "" are falsy
Truthy(s) == s # None /\ s # ""

\* Python's `a or b`
Or(a, b) == IF Truthy(a) THEN a ELSE b

\* the whitespace that str.strip() removes, among the characters of the model
Whitespace == {" "}

RECURSIVE LStrip(_)
LStrip(s) == IF s # <<>> /\ Head(s) \in Whitespace THEN LStrip(Tail(s)) ELSE s

RECURSIVE RStrip(_)
RStrip(s) ==
    IF s # <<>> /\ s[Len(s)] \in Whitespace THEN RStrip(SubSeq(s, 1, Len(s) - 1)) ELSE s

\* str.strip()
Strip(s) == RStrip(LStrip(s))

\* str.startswith(c) for a one-character prefix
StartsWith(s, c) == s # <<>> /\ Head(s) = c

----------------------------------------------------------------------------
(* The log *)

Ev(kind, idx, total, who, info) ==
    [kind |-> kind, i |-> idx, total |-> total, who |-> who, info |-> info]

Call(kind) == Ev(kind, 0, 0, None, None)

Kinds(k) == {n \in 1..Len(log) : log[n].kind = k}

Count(k) == Cardinality(Kinds(k))

----------------------------------------------------------------------------
(* load_recipients *)

\* line 34: the rows the loop skips
SkipRow(r) == r = <<>> \/ StartsWith(Strip(r[1]), "#")

\* lines 36-39: the record appended for a row that is not skipped
ParseRow(r) ==
    [email |-> Strip(r[1]),
     first |-> IF Len(r) > 1 THEN Strip(r[2]) ELSE <<>>,
     last  |-> IF Len(r) > 2 THEN Strip(r[3]) ELSE <<>>]

\* line 31: open(csv_path); an unreadable path raises and nothing catches it
OpenCsv ==
    /\ pc = "open_csv"
    /\ \/ /\ ~csvFile.readable
          /\ exc' = "FileNotFoundError"
          /\ pc' = "failed"
          /\ UNCHANGED <<recipients, row>>
       \/ /\ csvFile.readable
          /\ recipients' = <<>>
          /\ row' = 0
          /\ pc' = "load"
          /\ exc' = exc
    /\ UNCHANGED <<inputs, session, i, sent, msg, log>>

\* lines 33-39: one iteration of `for row in reader`
ReadRow ==
    /\ pc = "load"
    /\ row < Len(csvFile.content)
    /\ row' = row + 1
    /\ recipients' = IF SkipRow(csvFile.content[row + 1])
                     THEN recipients
                     ELSE Append(recipients, ParseRow(csvFile.content[row + 1]))
    /\ UNCHANGED <<inputs, pc, session, i, sent, msg, exc, log>>

\* line 40: return recipients
LoadReturn ==
    /\ pc = "load"
    /\ row = Len(csvFile.content)
    /\ pc' = "loaded"
    /\ UNCHANGED <<inputs, row, recipients, session, i, sent, msg, exc, log>>

----------------------------------------------------------------------------
(* Templates and str.format *)

\* literal text
Lit(t) == [kind |-> "lit", name |-> None, text |-> t]

\* "{name}"
Field(n) == [kind |-> "field", name |-> n, text |-> <<>>]

\* "{name[0]}"
Item0(n) == [kind |-> "item", name |-> n, text |-> <<>>]

\* a single "{" that opens no field
Stray == [kind |-> "stray", name |-> None, text |-> <<>>]

Rendered(t) == [ok |-> TRUE, text |-> t, err |-> None]

Raised(e) == [ok |-> FALSE, text |-> <<>>, err |-> e]

\* what str.format(**subs) makes of one piece of the template
FormatPiece(t, subs) ==
    CASE t.kind = "lit" -> Rendered(t.text)
      [] t.kind = "stray" -> Raised("ValueError")
      [] t.kind = "field" ->
            IF t.name \in DOMAIN subs THEN Rendered(subs[t.name]) ELSE Raised("KeyError")
      [] t.kind = "item" ->
            IF t.name \notin DOMAIN subs THEN Raised("KeyError")
            ELSE IF subs[t.name] = <<>> THEN Raised("IndexError")
            ELSE Rendered(<<subs[t.name][1]>>)

\* template.format(**subs): the pieces left to right, the first failure raises
RECURSIVE Format(_, _)
Format(tpl, subs) ==
    IF tpl = <<>> THEN Rendered(<<>>)
    ELSE LET piece == FormatPiece(Head(tpl), subs)
         IN  IF ~piece.ok THEN piece
             ELSE LET rest == Format(Tail(tpl), subs)
                  IN  IF rest.ok THEN Rendered(piece.text \o rest.text) ELSE rest

----------------------------------------------------------------------------
(* build_message *)

\* the text of line 58
HtmlNotice == <<"H", "T", "M", "L">>

\* no path: argparse leaves --attachment as None, which `if attachment_path` takes
\* like the empty string
NoPath == <<>>

\* os.path.basename of a path given as its components
Basename(path) == path[Len(path)]

\* the local `msg` before build_message has returned
NoMsg == [From |-> None, To |-> <<>>, Subject |-> <<>>, parts |-> <<>>, attachments |-> <<>>]

Part(subtype, text) == [subtype |-> subtype, text |-> text]

\* lines 57-61: the body part(s)
BodyParts(body, is_html) ==
    IF is_html THEN <<Part("plain", HtmlNotice), Part("html", body)>>
    ELSE <<Part("plain", body)>>

\* lines 63-76: the attachments of the message. attachOk is the outcome of opening,
\* reading and attaching the file; a failure is caught and warned about.
Attachments(attachment_path, attachOk) ==
    IF attachment_path # NoPath /\ attachOk THEN <<Basename(attachment_path)>> ELSE <<>>

\* line 76 is reached
AttachWarned(attachment_path, attachOk) == attachment_path # NoPath /\ ~attachOk

\* Without the try of line 64 a failed attachment would fail the whole message.
BuildMessageNoTry(sender, recipient, subject_template, body_template, is_html, attachment_path, attachOk) ==
    LET subs == [first |-> recipient.first, last |-> recipient.last,
                 email |-> recipient.email]
        subject == Format(subject_template, subs)
        body == IF subject.ok THEN Format(body_template, subs) ELSE subject
    IN  IF ~subject.ok
        THEN [ok |-> FALSE, err |-> subject.err, warned |-> FALSE, msg |-> NoMsg]
        ELSE IF ~body.ok
        THEN [ok |-> FALSE, err |-> body.err, warned |-> FALSE, msg |-> NoMsg]
        ELSE IF AttachWarned(attachment_path, attachOk)
        THEN [ok |-> FALSE, err |-> "OSError", warned |-> FALSE, msg |-> NoMsg]
        ELSE [ok |-> TRUE, err |-> None, warned |-> FALSE,
              msg |-> [From |-> sender,
                       To |-> recipient.email,
                       Subject |-> subject.text,
                       parts |-> BodyParts(body.text, is_html),
                       attachments |-> Attachments(attachment_path, attachOk)]]

\* lines 46-78: the message, or the exception that str.format raised
BuildMessage(sender, recipient, subject_template, body_template, is_html, attachment_path, attachOk) ==
    LET subs == [first |-> recipient.first, last |-> recipient.last,
                 email |-> recipient.email]
        subject == Format(subject_template, subs)
        body == IF subject.ok THEN Format(body_template, subs) ELSE subject
    IN  IF ~subject.ok
        THEN [ok |-> FALSE, err |-> subject.err, warned |-> FALSE, msg |-> NoMsg]
        ELSE IF ~body.ok
        THEN [ok |-> FALSE, err |-> body.err, warned |-> FALSE, msg |-> NoMsg]
        ELSE [ok |-> TRUE, err |-> None,
              warned |-> AttachWarned(attachment_path, attachOk),
              msg |-> [From |-> sender,
                       To |-> recipient.email,
                       Subject |-> subject.text,
                       parts |-> BodyParts(body.text, is_html),
                       attachments |-> Attachments(attachment_path, attachOk)]]

----------------------------------------------------------------------------
(* main, up to the call of send_bulk *)

\* line 122
User == Or(args.user, env.SMTP_USER)

\* line 123
Password == Or(args.password, env.SMTP_PASS)

\* Requiring only one of the two would accept a missing password.
CredsMissingBoth(user, password) == ~Truthy(user) /\ ~Truthy(password)

\* line 124
CredsMissing(user, password) == ~Truthy(user) \/ ~Truthy(password)

\* lines 122-127
MainCredentials ==
    /\ pc = "main"
    /\ IF CredsMissing(User, Password)
       THEN /\ log' = Append(log, Ev("CredentialsError", 0, 0, None, None))
            /\ pc' = "returned"
       ELSE /\ log' = log
            /\ pc' = "open_csv"
    /\ UNCHANGED <<inputs, row, recipients, session, i, sent, msg, exc>>

\* lines 129-132
MainRecipients ==
    /\ pc = "loaded"
    /\ IF recipients = <<>>
       THEN /\ log' = Append(log, Ev("NoRecipients", 0, 0, None, None))
            /\ pc' = "returned"
       ELSE /\ log' = log
            /\ pc' = "read_body"
    /\ UNCHANGED <<inputs, row, recipients, session, i, sent, msg, exc>>

\* lines 134 and 42-44: load_file_text; an unreadable path raises and nothing
\* catches it. Afterwards bodyFile.content is the body template.
LoadFileText ==
    /\ pc = "read_body"
    /\ IF ~bodyFile.readable
       THEN /\ exc' = "FileNotFoundError"
            /\ pc' = "failed"
       ELSE /\ exc' = exc
            /\ pc' = "connect"
    /\ UNCHANGED <<inputs, row, recipients, session, i, sent, msg, log>>

----------------------------------------------------------------------------
(* send_bulk *)

N == Len(recipients)

\* line 148
use_tls == ~args.no_tls

\* line 86: smtplib.SMTP(smtp_server, port, timeout=60). A constructor that raises
\* leaves no session behind and the with block is never entered.
Connect ==
    /\ pc = "connect"
    /\ \E ok \in BOOLEAN :
        IF ok
        THEN /\ session' = "open"
             /\ log' = Append(log, Call("open"))
             /\ pc' = "ehlo"
             /\ exc' = exc
        ELSE /\ session' = session
             /\ log' = log
             /\ pc' = "failed"
             /\ exc' = "OSError"
    /\ UNCHANGED <<inputs, row, recipients, i, sent, msg>>

\* One call on the session that either returns or raises out of the with block.
SessionCall(at, name, error, next) ==
    /\ pc = at
    /\ \E ok \in BOOLEAN :
        /\ log' = Append(log, Ev(name, 0, 0, None, ok))
        /\ IF ok
           THEN /\ pc' = next
                /\ exc' = exc
           ELSE /\ pc' = "exit"
                /\ exc' = error
    /\ UNCHANGED <<inputs, row, recipients, session, msg>>

\* line 87
Ehlo ==
    /\ SessionCall("ehlo", "ehlo", "SMTPHeloError", IF use_tls THEN "starttls" ELSE "login")
    /\ UNCHANGED <<i, sent>>

\* line 89
StartTls ==
    /\ SessionCall("starttls", "starttls", "SMTPNotSupportedError", "ehlo2")
    /\ UNCHANGED <<i, sent>>

\* line 90
EhloTls ==
    /\ SessionCall("ehlo2", "ehlo", "SMTPHeloError", "login")
    /\ UNCHANGED <<i, sent>>

\* the loop of line 94 starts at the first recipient, or ends at once
LoopEntry == IF N = 0 THEN "summary" ELSE "build"

\* A login that swallowed its failure would let the loop run unauthenticated.
LoginUnchecked ==
    /\ pc = "login"
    /\ \E ok \in BOOLEAN :
        /\ log' = Append(log, Ev("login", 0, 0, None, ok))
        /\ pc' = LoopEntry
        /\ exc' = exc
    /\ sent' = 0
    /\ i' = 1
    /\ UNCHANGED <<inputs, row, recipients, session, msg>>

\* lines 91-94: login, then sent = 0 and the loop starts
Login ==
    /\ SessionCall("login", "login", "SMTPAuthenticationError", LoopEntry)
    /\ sent' = 0
    /\ i' = 1

\* A handler for SMTP errors only would let a render failure leave the loop.
CaughtSmtpOnly(e) == e = "SMTPException"

\* line 100: `except Exception` catches whatever build_message or send_message raise
Caught(e) == TRUE

\* the outcomes the environment can give to the attachment of line 65-74: none
\* when there is no path or str.format has raised before
AttachOutcomes(recipient) ==
    IF args.attachment # NoPath
       /\ BuildMessage(None, recipient, args.subject, bodyFile.content, FALSE, NoPath, TRUE).ok
    THEN {"attached", "failed"}
    ELSE {"none"}

\* lines 95-96 and 100-101: build_message for recipient i
Build ==
    /\ pc = "build"
    /\ \E outcome \in AttachOutcomes(recipients[i]) :
        LET r == recipients[i]
            b == BuildMessage(Or(args.sender_name, User), r, args.subject, bodyFile.content,
                              args.html, args.attachment, outcome # "failed")
            called == Append(log, Ev("build_message", i, N, r.email, outcome))
            warned == IF b.warned
                      THEN Append(called, Ev("Warning", i, N, r.email, args.attachment))
                      ELSE called
        IN  /\ msg' = b.msg
            /\ IF b.ok
               THEN /\ log' = warned
                    /\ pc' = "send"
                    /\ exc' = exc
               ELSE IF Caught(b.err)
               THEN /\ log' = Append(warned, Ev("ERROR", i, N, r.email, b.err))
                    /\ pc' = "pace"
                    /\ exc' = exc
               ELSE /\ log' = warned
                    /\ pc' = "exit"
                    /\ exc' = b.err
    /\ UNCHANGED <<inputs, row, recipients, session, i, sent>>

\* Counting before the send would count failures too.
SentAlways(n, ok) == n + 1

\* line 98
SentAfter(n, ok) == IF ok THEN n + 1 ELSE n

\* lines 97-101: send_message for recipient i, which returns or raises
Send ==
    /\ pc = "send"
    /\ \E ok \in BOOLEAN :
        LET r == recipients[i]
            called == Append(log, Ev("send_message", i, N, r.email, [msg |-> msg, ok |-> ok]))
        IN  /\ sent' = SentAfter(sent, ok)
            /\ IF ok
               THEN /\ log' = Append(called, Ev("Sent", i, N, r.email, None))
                    /\ pc' = "pace"
                    /\ exc' = exc
               ELSE IF Caught("SMTPException")
               THEN /\ log' = Append(called, Ev("ERROR", i, N, r.email, "SMTPException"))
                    /\ pc' = "pace"
                    /\ exc' = exc
               ELSE /\ log' = called
                    /\ pc' = "exit"
                    /\ exc' = "SMTPException"
    /\ UNCHANGED <<inputs, row, recipients, session, i, msg>>

\* Without the test of the index the loop would also pause after the last recipient.
SleepAlways(delay, idx, total) == delay > 0

\* line 102
SleepNeeded(delay, idx, total) == delay > 0 /\ idx # total

\* lines 102-103 and the step of the for loop
Pace ==
    /\ pc = "pace"
    /\ log' = IF SleepNeeded(args.delay, i, N)
              THEN Append(log, Ev("sleep", i, N, None, args.delay))
              ELSE log
    /\ IF i < N
       THEN /\ i' = i + 1
            /\ pc' = "build"
       ELSE /\ i' = i
            /\ pc' = "summary"
    /\ UNCHANGED <<inputs, row, recipients, session, sent, msg, exc>>

\* line 104
Summary ==
    /\ pc = "summary"
    /\ log' = Append(log, Ev("Done", sent, N, None, None))
    /\ pc' = "exit"
    /\ UNCHANGED <<inputs, row, recipients, session, i, sent, msg, exc>>

\* Leaving the block without the context manager would leave the session open.
ExitUnmanaged ==
    /\ pc = "exit"
    /\ pc' = IF exc = None THEN "returned" ELSE "failed"
    /\ UNCHANGED <<inputs, row, recipients, session, i, sent, msg, exc, log>>

\* line 86: leaving the with block, normally or by an exception, closes the session
ExitWith ==
    /\ pc = "exit"
    /\ session' = "closed"
    /\ log' = Append(log, Call("close"))
    /\ pc' = IF exc = None THEN "returned" ELSE "failed"
    /\ UNCHANGED <<inputs, row, recipients, i, sent, msg, exc>>

\* lines 95-103: `except Exception` does not catch a BaseException such as
\* KeyboardInterrupt, which leaves the loop body and the with block
Escape ==
    /\ pc \in {"build", "send", "pace"}
    /\ exc' = "KeyboardInterrupt"
    /\ pc' = "exit"
    /\ UNCHANGED <<inputs, row, recipients, session, i, sent, msg, log>>

----------------------------------------------------------------------------
(* The inputs the program is run on *)

SeqsUpTo(S, n) == UNION {[1..k -> S] : k \in 0..n}

\* command lines and environments: credentials by flag, by environment, an empty
\* password, no user at all
Credentials ==
    {[user |-> "u", password |-> "p", SMTP_USER |-> None, SMTP_PASS |-> None],
     [user |-> None, password |-> None, SMTP_USER |-> "eu", SMTP_PASS |-> "ep"],
     [user |-> "u", password |-> "", SMTP_USER |-> None, SMTP_PASS |-> None],
     [user |-> None, password |-> "p", SMTP_USER |-> None, SMTP_PASS |-> "ep"]}

\* --sender-name, --html and --no-tls: every two of them in every combination
Options ==
    {[sender_name |-> None, html |-> FALSE, no_tls |-> FALSE],
     [sender_name |-> "Name <me>", html |-> TRUE, no_tls |-> FALSE],
     [sender_name |-> "Name <me>", html |-> FALSE, no_tls |-> TRUE],
     [sender_name |-> None, html |-> TRUE, no_tls |-> TRUE]}

\* "Hi", "Hi {first[0]}" (fails for a recipient without a first name), "{nickname}"
Subjects ==
    {<<Lit(<<"H", "i">>)>>,
     <<Lit(<<"H", "i", " ">>), Item0("first")>>,
     <<Field("nickname")>>}

\* "{first} {last} <{email}>"
GoodBody == <<Field("first"), Lit(<<" ">>), Field("last"), Lit(<<" ", "<">>), Field("email"), Lit(<<">">>)>>

\* "{first} {"
BadBody == <<Field("first"), Lit(<<" ">>), Stray>>

BodyFiles == {File(GoodBody), File(BadBody), Unreadable}

AttachmentPaths == {NoPath, <<"docs", "report.pdf">>}

Delays == {-1, 0, 2}

\* rows of the CSV files the whole program is run on: a full row and a row with
\* only an address
RecipientRows ==
    {<< <<"a">>, <<"A">>, <<"S">> >>,
     << <<" ", "b">> >>}

CommentRow == << <<"#", "c">>, <<"C">> >>

BlankRow == <<>>

\* files of up to MaxSendRows recipients, a file of comments and blank lines only,
\* a file with both, and a path that cannot be opened
SendCsvFiles ==
    {File(rows) : rows \in SeqsUpTo(RecipientRows, MaxSendRows)}
        \cup {File(<<CommentRow>> \o rows \o <<BlankRow>>) : rows \in SeqsUpTo(RecipientRows, 1)}
        \cup {Unreadable}

\* cells of the CSV files the loader is run on alone
FirstCells ==
    {<<>>, <<" ">>, <<"#", "a">>, <<" ", "#">>, <<"a">>, <<" ", "a", " ">>, <<"b", "#">>}

FirstNames == {<<>>, <<" ", "A">>}

LastNames == {<<"S", " ">>}

LoadRows ==
    {<<>>} \cup {<<c>> : c \in FirstCells}
           \cup {<<c, f>> : c \in FirstCells, f \in FirstNames}
           \cup {<<c, f, l>> : c \in FirstCells, f \in FirstNames, l \in LastNames}

LoadCsvFiles == {File(rows) : rows \in SeqsUpTo(LoadRows, MaxRows)} \cup {Unreadable}

----------------------------------------------------------------------------
(* The program *)

Start(at) ==
    /\ pc = at
    /\ row = 0
    /\ recipients = <<>>
    /\ session = "none"
    /\ i = 0
    /\ sent = 0
    /\ msg = NoMsg
    /\ exc = None
    /\ log = <<>>

\* main() is entered with some command line, environment and files
Init ==
    /\ \E c \in Credentials :
        /\ env = [SMTP_USER |-> c.SMTP_USER, SMTP_PASS |-> c.SMTP_PASS]
        /\ \E o \in Options, su \in Subjects, a \in AttachmentPaths, d \in Delays :
            args = [user |-> c.user, password |-> c.password,
                    sender_name |-> o.sender_name, subject |-> su, html |-> o.html,
                    attachment |-> a, delay |-> d, no_tls |-> o.no_tls]
    /\ csvFile \in SendCsvFiles
    /\ bodyFile \in BodyFiles
    /\ Start("main")

Next ==
    \/ MainCredentials
    \/ OpenCsv
    \/ ReadRow
    \/ LoadReturn
    \/ MainRecipients
    \/ LoadFileText
    \/ Connect
    \/ Ehlo
    \/ StartTls
    \/ EhloTls
    \/ Login
    \/ Build
    \/ Send
    \/ Pace
    \/ Summary
    \/ ExitWith

Spec == Init /\ [][Next]_vars

\* the same program, with interrupts
NextEscape == Next \/ Escape

SpecEscape == Init /\ [][NextEscape]_vars

\* load_recipients alone, on a wider range of files
InitLoad ==
    /\ env = [SMTP_USER |-> None, SMTP_PASS |-> None]
    /\ args = [user |-> "u", password |-> "p", sender_name |-> None,
               subject |-> <<>>, html |-> FALSE, attachment |-> NoPath, delay |-> 0,
               no_tls |-> FALSE]
    /\ csvFile \in LoadCsvFiles
    /\ bodyFile = File(<<>>)
    /\ Start("open_csv")

NextLoad == OpenCsv \/ ReadRow \/ LoadReturn

SpecLoad == InitLoad /\ [][NextLoad]_vars

----------------------------------------------------------------------------
(* Reading the log *)

\* the events of one kind, in order
Sel(k) == SelectSeq(log, LAMBDA e : e.kind = k)

\* the per-recipient progress lines, in order
ProgressLines == SelectSeq(log, LAMBDA e : e.kind \in {"Sent", "ERROR"})

LoginOk == \E n \in 1..Len(log) : log[n].kind = "login" /\ log[n].info

LoginFailed == \E n \in 1..Len(log) : log[n].kind = "login" /\ ~log[n].info

DonePrinted == Count("Done") > 0

Finished == pc \in {"returned", "failed"}

InLoop == pc \in {"build", "send", "pace", "summary"}

\* str.format raises for recipient k, in the subject or in the body
RenderFails(k) ==
    LET subs == [first |-> recipients[k].first, last |-> recipients[k].last,
                 email |-> recipients[k].email]
    IN  ~Format(args.subject, subs).ok \/ ~Format(bodyFile.content, subs).ok

AllSendsOk == \A n \in Kinds("send_message") : log[n].info.ok

----------------------------------------------------------------------------
(* C1 *)

\* what is true of the log and the counters at every moment of a run
C1_State ==
    LET B == Sel("build_message")
        S == Sel("send_message")
    IN  /\ \A n \in 1..Len(B) :
              n <= N /\ B[n].i = n /\ B[n].who = recipients[n].email
        /\ \A n \in 1..Len(S) :
              /\ S[n].i \in 1..Len(B)
              /\ S[n].info.msg.To = recipients[S[n].i].email
              /\ n > 1 => S[n - 1].i < S[n].i
        /\ \A p \in Kinds("send_message") :
              log[p - 1].kind \in {"build_message", "Warning"} /\ log[p - 1].i = log[p].i
        /\ Len(B) > 0 => LoginOk
        /\ LoginOk => exc = None /\ pc # "failed"
        /\ pc = "build" => Len(B) = i - 1
        /\ pc \in {"send", "pace"} => Len(B) = i
        /\ LoginOk /\ ~InLoop => DonePrinted /\ Len(B) = N

\* what every step of the loop does
C1_Step ==
    /\ pc = "login" /\ LoginOk' => pc' = "build" /\ i' = 1
    /\ pc = "build" => pc' \in {"send", "pace"} /\ i' = i
    /\ pc = "send" => pc' = "pace" /\ i' = i
    /\ pc = "pace" /\ i < N => pc' = "build" /\ i' = i + 1
    /\ pc = "pace" /\ i = N => pc' = "summary"
    /\ pc = "summary" => pc' = "exit" /\ DonePrinted'

\* C1: once login has succeeded, every recipient is attempted exactly once
\* (build_message, then send_message), in the order of the list; an exception
\* of an attempt is caught, never aborts the run and is never retried, and the
\* loop goes on to the next recipient until "Done" is printed.
C1_EveryRecipientAttemptedOnceInOrder == [](C1_State) /\ [][C1_Step]_vars

C1_Witness ==
    /\ DonePrinted
    /\ N >= 3
    /\ \E n \in Kinds("ERROR") : log[n].i = 1
    /\ \E n \in Kinds("ERROR") : log[n].i = 2 /\ log[n].info = "SMTPException"
    /\ \E n \in Kinds("Sent") : log[n].i = N

----------------------------------------------------------------------------
(* C2 *)

\* C2: when server.login raises, no message is built or sent, no progress line
\* and no "Done" summary is printed, and the run ends with the authentication
\* error propagating.
C2_AuthFailureSendsNothing ==
    LoginFailed =>
        /\ Count("build_message") = 0
        /\ Count("send_message") = 0
        /\ ProgressLines = <<>>
        /\ ~DonePrinted
        /\ sent = 0
        /\ exc = "SMTPAuthenticationError"
        /\ pc \in {"exit", "failed"}

C2_Witness == LoginFailed /\ pc = "failed" /\ N >= 2

----------------------------------------------------------------------------
(* C5 *)

\* C5: in a finished run of N recipients in which str.format raises for
\* exactly one recipient k and every send_message returned, there is exactly
\* one ERROR line, with index k and recipient k's address, a "Sent to" line for
\* each of the other recipients, and the summary reports N-1 out of N.
C5_OneRenderFailure ==
    LET F == {k \in 1..N : RenderFails(k)}
        E == Sel("ERROR")
    IN  (Finished /\ LoginOk /\ Cardinality(F) = 1 /\ AllSendsOk) =>
            /\ Len(E) = 1
            /\ E[1].i \in F
            /\ E[1].total = N
            /\ E[1].who = recipients[E[1].i].email
            /\ \A k \in (1..N) \ F :
                  \E n \in Kinds("Sent") : log[n].i = k /\ log[n].who = recipients[k].email
            /\ Count("Sent") = N - 1
            /\ \E n \in Kinds("Done") : log[n].i = N - 1 /\ log[n].total = N

C5_Witness ==
    /\ Finished
    /\ LoginOk
    /\ AllSendsOk
    /\ N = 3
    /\ {k \in 1..N : RenderFails(k)} = {2}

----------------------------------------------------------------------------
(* C6 *)

\* C6: with delay > 0 the loop pauses for delay seconds after every recipient
\* but the last, whether the attempt succeeded or failed, and before the next
\* recipient is built: N-1 pauses in a run of N recipients; with delay <= 0 it
\* never pauses.
C6_PausesBetweenRecipients ==
    LET S == Sel("sleep")
    IN  /\ args.delay <= 0 => S = <<>>
        /\ \A n \in 1..Len(S) : S[n].i = n /\ n < N /\ S[n].info = args.delay
        /\ \A p \in Kinds("sleep") :
              /\ p > 1
              /\ log[p - 1].kind \in {"Sent", "ERROR"}
              /\ log[p - 1].i = log[p].i
              /\ p < Len(log) =>
                    log[p + 1].kind = "build_message" /\ log[p + 1].i = log[p].i + 1
        /\ args.delay > 0 =>
              \A p \in Kinds("build_message") :
                  log[p].i > 1 => log[p - 1].kind = "sleep" /\ log[p - 1].i = log[p].i - 1
        /\ DonePrinted /\ args.delay > 0 => Len(S) = N - 1

C6_Witness ==
    /\ DonePrinted
    /\ N = 3
    /\ args.delay > 0
    /\ Count("sleep") = 2
    /\ \E n \in Kinds("ERROR") : log[n].i = 1

----------------------------------------------------------------------------
(* C7 *)

SessionCalls == {"ehlo", "starttls", "login", "send_message"}

----------------------------------------------------------------------------
(* C8 *)

\* neither the flag nor the environment gives the user, or the password
Unconfigured ==
    \/ ~Truthy(args.user) /\ ~Truthy(env.SMTP_USER)
    \/ ~Truthy(args.password) /\ ~Truthy(env.SMTP_PASS)

\* the CSV file has been loaded and has given no recipient
NothingLoaded ==
    /\ ~Unconfigured
    /\ csvFile.readable
    /\ pc \notin {"main", "open_csv", "load"}
    /\ recipients = <<>>

Diagnostic(kind) == <<Ev(kind, 0, 0, None, None)>>

\* C8: with the user or the password missing, or with a CSV file that yields
\* no recipient, main prints its diagnostic and returns; no session is opened
\* and nothing is sent.
C8_ConfigurationErrorsBeforeNetwork ==
    /\ Unconfigured =>
          /\ pc \in {"main", "returned"}
          /\ pc = "returned" => log = Diagnostic("CredentialsError")
    /\ NothingLoaded =>
          /\ pc \in {"loaded", "returned"}
          /\ pc = "returned" => log = Diagnostic("NoRecipients")
    /\ Unconfigured \/ NothingLoaded =>
          /\ session = "none"
          /\ Count("open") = 0
          /\ Count("send_message") = 0
          /\ exc = None

C8_Witness ==
    /\ pc = "returned"
    /\ Truthy(args.user)
    /\ ~Truthy(args.password)
    /\ log = Diagnostic("CredentialsError")

----------------------------------------------------------------------------
(* C9 *)

\* C9: when attaching the file fails for a recipient, build_message warns and
\* returns the message with its headers and body and no attachment; send_bulk
\* hands that message to send_message, and the recipient's line is "Sent to"
\* when send_message returns (ERROR only when send_message itself raises).
C9_AttachmentFailureNonFatal ==
    \A p \in Kinds("build_message") :
        log[p].info = "failed" =>
            LET k == log[p].i
            IN  /\ p < Len(log)
                /\ log[p + 1].kind = "Warning"
                /\ log[p + 1].i = k
                /\ p + 2 > Len(log) => pc = "send" /\ i = k /\ msg.attachments = <<>>
                /\ p + 2 <= Len(log) =>
                      /\ log[p + 2].kind = "send_message"
                      /\ log[p + 2].i = k
                      /\ log[p + 2].info.msg.attachments = <<>>
                      /\ log[p + 2].info.msg.To = recipients[k].email
                      /\ log[p + 2].info.msg.From = Or(args.sender_name, User)
                      /\ log[p + 2].info.msg.parts # <<>>
                      /\ p + 3 <= Len(log)
                      /\ log[p + 3].i = k
                      /\ log[p + 3].kind = IF log[p + 2].info.ok THEN "Sent" ELSE "ERROR"

C9_Witness ==
    /\ DonePrinted
    /\ N = 3
    /\ Count("Warning") = 3
    /\ Count("Sent") = 3
    /\ sent = 3

----------------------------------------------------------------------------
(* C10 *)

\* C10: the progress lines carry the indices 1, 2, ... in order, one line per
\* processed recipient; sent equals the number of "Sent to" lines and the
\* number of send_message calls that returned; "Done" is printed once, after
\* all N lines, with sent and N, and then sent plus the number of ERROR lines
\* is N and 0 <= sent <= N.
C10_CounterInvariant ==
    LET L == ProgressLines
    IN  /\ \A n \in 1..Len(L) :
              L[n].i = n /\ L[n].total = N /\ L[n].who = recipients[n].email
        /\ pc \in {"build", "send"} => Len(L) = i - 1
        /\ pc \in {"pace", "summary"} => Len(L) = i
        /\ sent = Count("Sent")
        /\ sent = Cardinality({n \in Kinds("send_message") : log[n].info.ok})
        /\ 0 <= sent /\ sent <= N
        /\ Count("Done") <= 1
        /\ \A n \in Kinds("Done") :
              /\ log[n].i = sent
              /\ log[n].total = N
              /\ Len(L) = N
              /\ sent + Count("ERROR") = N
              /\ \A q \in Kinds("Sent") \cup Kinds("ERROR") : q < n

C10_Witness ==
    /\ DonePrinted
    /\ N = 3
    /\ Count("Sent") = 2
    /\ Count("ERROR") = 1

----------------------------------------------------------------------------
(* C3 and C4: load_recipients *)

\* a comment row: the first cell starts with "#" once trimmed
CommentedOut(r) == r # <<>> /\ StartsWith(Strip(r[1]), "#")

\* a blank row: no cell at all, or a first cell that is empty once trimmed
Blank(r) == r = <<>> \/ Strip(r[1]) = <<>>

\* the rows of the file that are neither comments nor blank, in file order
DataRows == SelectSeq(csvFile.content, LAMBDA r : ~CommentedOut(r) /\ ~Blank(r))

\* the record of a row, with the missing trailing fields empty
RecordOf(r) ==
    [email |-> Strip(r[1]),
     first |-> IF Len(r) >= 2 THEN Strip(r[2]) ELSE <<>>,
     last  |-> IF Len(r) >= 3 THEN Strip(r[3]) ELSE <<>>]

\* What the loader does keep: every row that has a cell and is not a comment,
\* the rows with an empty first cell among them.
LoaderKeepsEveryRowWithCells ==
    pc = "loaded" =>
        LET kept == SelectSeq(csvFile.content, LAMBDA r : r # <<>> /\ ~CommentedOut(r))
        IN  recipients = [n \in 1..Len(kept) |-> RecordOf(kept[n])]

\* C3: every record that load_recipients returns has an address that is not
\* empty and is trimmed, and a row whose first cell is empty (or only
\* whitespace) or starts with "#" gives no record.
C3_EmailNonEmptyAndTrimmed ==
    pc = "loaded" =>
        /\ \A k \in 1..Len(recipients) :
              recipients[k].email # <<>> /\ Strip(recipients[k].email) = recipients[k].email
        /\ Len(recipients) = Len(DataRows)

\* C4: load_recipients returns one record for each row that is neither a
\* comment nor blank, in file order, the missing trailing fields empty, with no
\* record dropped as a duplicate and none moved.
C4_OneRecordPerDataRowInOrder ==
    pc = "loaded" => recipients = [n \in 1..Len(DataRows) |-> RecordOf(DataRows[n])]

====
